---- MODULE Spec2Model ----
(***************************************************************************)
(* A model of BAN6440.PY: a one-shot script that loads a sales dataset,    *)
(* splits and standardizes it, fits a linear regression, a random forest   *)
(* and a grid-search-tuned random forest, and prints a comparison table.   *)
(*                                                                         *)
(* Four views of the script are modelled over one set of variables:        *)
(*   Spec        the eight try/except blocks of the script, one action     *)
(*               per block, with every point at which a block can raise;   *)
(*   SpecScaler  the same actions, started from every small dataset and    *)
(*               every shuffle of its rows;                                *)
(*   SpecGrid    the enumeration of param_grid x folds by                  *)
(*               grid_search.fit, one job per step;                        *)
(*   SpecSearch  the parallel execution of the (candidate, fold) jobs of   *)
(*               grid_search.fit on a worker pool and the selection of     *)
(*               best_params_.                                             *)
(***************************************************************************)
EXTENDS Integers, Sequences, FiniteSets, TLC

VARIABLES
    \* ---- the script's control and its Python globals
    pc,             \* the block about to run: "step1".."step8", "done", "exited"
    bound,          \* the non-metric global names bound so far
    env,            \* the metric globals bound so far: name -> value
    table,          \* the printed comparison table: [emitted, rows]
    errors,         \* the steps whose except handler printed, in order
    attempted,      \* the steps entered, in order
    stages,         \* the pipeline stages completed, in order
    plotFailed,     \* the plots that raised (input record)
    modelFailedAt,  \* model -> the non-plot call that raised in its step, or "none"
    oracle,         \* model -> <<mse, r2>> the metric calls return for it
    \* ---- the dataset, the split and the scaler
    X,              \* the feature column, one value per row
    perm,           \* the row permutation drawn by train_test_split's seed
    X_train,        \* the train rows' values
    X_test,         \* the test rows' values
    scaler,         \* StandardScaler's fitted state, or NotFitted
    scalerLog,      \* the calls made on the scaler: <<method, partition>>
    X_train_scaled,
    X_test_scaled,
    \* ---- grid_search.fit
    candidates,     \* the candidate configurations being searched, in order
    outcomes,       \* what a job can return: a score, or Failed
    nWorkers,       \* the size of the worker pool (n_jobs=-1: the CPU count)
    dispatched,     \* the <<candidate, fold>> jobs handed out so far, in order
    running,        \* the jobs on a worker
    scores,         \* finished job -> the score it returned (NaN: failed fit)
    outOfOrder,     \* a job has returned before one dispatched earlier
    searchPc,       \* "idle" | "running" | "selected" | "raised"
    mean_test_score,\* candidate -> mean of its fold scores, once aggregated
    best_index_     \* the index of the selected candidate, or NoIndex

pipelineVars == <<pc, bound, env, table, errors, attempted, stages, plotFailed,
                  modelFailedAt, oracle>>
dataVars == <<X, perm, X_train, X_test, scaler, scalerLog, X_train_scaled,
              X_test_scaled>>
searchVars == <<candidates, outcomes, nWorkers, dispatched, running, scores,
                outOfOrder, searchPc, mean_test_score, best_index_>>
vars == <<pipelineVars, dataVars, searchVars>>

(***************************************************************************)
(* Bounds of the model.                                                    *)
(***************************************************************************)
NRows == 3          \* rows of the dataset
MaxCandidates == 2  \* candidates searched under SpecSearch
MaxWorkers == 2     \* largest worker pool under SpecSearch

FeatureValues == {0, 1}
MetricValues == {0, 1}

\* A StandardScaler that has seen no sample: it has no fitted attributes.
NotFitted == [n_samples_seen_ |-> 0, mean_ |-> <<0, 1>>, var_ |-> <<0, 1>>]
NoIndex == 0 - 1

(***************************************************************************)
(* Helpers on sequences.                                                   *)
(***************************************************************************)
Range(s) == {s[i] : i \in DOMAIN s}

Last(s) == s[Len(s)]

RECURSIVE SumSeq(_)
SumSeq(s) == IF s = <<>> THEN 0 ELSE s[1] + SumSeq(Tail(s))

RowPermutations(n) ==
    {p \in [1..n -> 1..n] : \A i, j \in 1..n : i # j => p[i] # p[j]}

(***************************************************************************)
(* Step 3: train_test_split(X, y, test_size=0.2, random_state=42).         *)
(* n_test = ceil(test_size * n), n_train = n - n_test; the seeded          *)
(* permutation's first n_test rows are the test partition and the rest     *)
(* the train partition.                                                    *)
(***************************************************************************)
TestPercent == 20

NTest(n) == (TestPercent * n + 99) \div 100

NTrain(n) == n - NTest(n)

TestIdx(p) == [i \in 1..NTest(Len(p)) |-> p[i]]

TrainIdx(p) == [i \in 1..NTrain(Len(p)) |-> p[NTest(Len(p)) + i]]

Take(col, idx) == [i \in DOMAIN idx |-> col[idx[i]]]

(***************************************************************************)
(* StandardScaler.  fit computes the per-column mean and the population    *)
(* variance; they are kept as exact fractions <<numerator, denominator>>:  *)
(*   mean_ = S / n        var_ = (n * SS - S * S) / (n * n)                *)
(* transform returns (x - mean_) / scale_ with scale_ = sqrt(var_), and    *)
(* scale_ = 1 for a constant column; a scaled value is kept as <<a, b>>,   *)
(* standing for a / sqrt(b):  (n * x - S) / sqrt(n * SS - S * S).          *)
(***************************************************************************)
ScalerFit(col) ==
    LET n == Len(col)
        S == SumSeq(col)
        SS == SumSeq([i \in DOMAIN col |-> col[i] * col[i]])
    IN  [n_samples_seen_ |-> n,
         mean_ |-> <<S, n>>,
         var_ |-> <<n * SS - S * S, n * n>>]

ScalerTransform(sc, col) ==
    LET n == sc.n_samples_seen_
        S == sc.mean_[1]
        v == sc.var_[1]
    IN  [i \in DOMAIN col |->
            <<n * col[i] - S, IF v = 0 THEN n * n ELSE v>>]

(***************************************************************************)
(* The script's blocks.                                                    *)
(***************************************************************************)
Steps == 1..8

StepPc(i) == CASE i = 1 -> "step1" [] i = 2 -> "step2" [] i = 3 -> "step3"
               [] i = 4 -> "step4" [] i = 5 -> "step5" [] i = 6 -> "step6"
               [] i = 7 -> "step7" [] i = 8 -> "step8" [] OTHER -> "done"

\* The block that follows block i when it does not leave the script.
NextPc(i) == StepPc(i + 1)

\* Mutant of AfterHandler: every handler leaves the script.
AfterHandlerExits(i) == "exited"

\* Mutant of AfterHandler: a handler runs its block again.
AfterHandlerRetries(i) == IF i \in {1, 3} THEN "exited" ELSE StepPc(i)

\* Where control goes after block i's except handler has printed: the
\* handlers of Step 1 and Step 3 call exit(), the others fall through.
AfterHandler(i) == IF i \in {1, 3} THEN "exited" ELSE NextPc(i)

Models == {"lr", "rf", "optimized"}

MseName(m) == CASE m = "lr" -> "mse_lr" [] m = "rf" -> "mse_rf"
                [] OTHER -> "mse_optimized"

R2Name(m) == CASE m = "lr" -> "r2_lr" [] m = "rf" -> "r2_rf"
               [] OTHER -> "r2_optimized"

ModelName(m) == CASE m = "lr" -> "lr_model" [] m = "rf" -> "rf_model"
                  [] OTHER -> "optimized_rf"

StageOf(m) == CASE m = "lr" -> "BaselineTrained" [] m = "rf" -> "EnsembleTrained"
                [] OTHER -> "Tuned"

DisplayName(m) == CASE m = "lr" -> "Linear Regression" [] m = "rf" -> "Random Forest"
                    [] OTHER -> "Optimized Random Forest"

Bind(e, name, value) ==
    [k \in DOMAIN e \cup {name} |-> IF k = name THEN value ELSE e[k]]

EmptyEnv == [k \in {} |-> 0]

NoTable == [emitted |-> FALSE, rows |-> <<>>]

(***************************************************************************)
(* Steps 4, 5 and 6 share one shape: fit, predict, mean_squared_error,     *)
(* r2_score, the prints, then the plots.  An outcome names the call that   *)
(* raises: "search" (Step 6: grid_search.fit), "fit", "predict", "mse",    *)
(* "r2", "plot" (the scatter plot), "importance" (Step 5: the feature      *)
(* importance chart), or "ok".                                             *)
(***************************************************************************)
BeforeFit == {"search"}
BeforeMse == BeforeFit \cup {"fit", "predict", "mse"}
BeforeR2 == BeforeMse \cup {"r2"}
PlotOutcomes == {"plot", "importance"}

\* Mutant of EnvAfter: the plots are drawn before the metrics are computed.
EnvAfterPlotFirst(e, m, o, orc) ==
    IF o \in BeforeMse \cup PlotOutcomes THEN e
    ELSE IF o \in BeforeR2 THEN Bind(e, MseName(m), orc[m][1])
    ELSE Bind(Bind(e, MseName(m), orc[m][1]), R2Name(m), orc[m][2])

\* The metric globals after model m's block ended with outcome o.
EnvAfter(e, m, o, orc) ==
    IF o \in BeforeMse THEN e
    ELSE IF o \in BeforeR2 THEN Bind(e, MseName(m), orc[m][1])
    ELSE Bind(Bind(e, MseName(m), orc[m][1]), R2Name(m), orc[m][2])

BoundAfter(b, m, o) ==
    (IF m = "optimized" /\ o \notin BeforeFit THEN b \cup {"best_params"} ELSE b)
        \cup (IF o \in BeforeFit \cup {"fit"} THEN {} ELSE {ModelName(m)})

ModelBlock(step, m, raisers) ==
    /\ \E o \in raisers \cup {"ok"} :
        /\ attempted' = Append(attempted, step)
        /\ bound' = BoundAfter(bound, m, o)
        /\ env' = EnvAfter(env, m, o, oracle)
        /\ stages' = IF ModelName(m) \in BoundAfter(bound, m, o)
                        THEN Append(stages, StageOf(m)) ELSE stages
        /\ plotFailed' = IF o \in PlotOutcomes
                            THEN plotFailed \cup {<<step, o>>} ELSE plotFailed
        /\ modelFailedAt' = [modelFailedAt EXCEPT
                                ![m] = IF o \in PlotOutcomes \cup {"ok"} THEN "none" ELSE o]
        /\ errors' = IF o = "ok" THEN errors ELSE Append(errors, step)
        /\ pc' = IF o = "ok" THEN NextPc(step) ELSE AfterHandler(step)
    /\ UNCHANGED <<table, oracle, dataVars, searchVars>>

\* Step 1: read_csv and the diagnostics; both handlers call exit().
Step1 ==
    /\ pc = "step1"
    /\ attempted' = Append(attempted, 1)
    /\ \E o \in {"ok", "FileNotFoundError", "Exception"} :
        IF o = "ok"
            THEN /\ bound' = bound \cup {"data"}
                 /\ stages' = Append(stages, "Loaded")
                 /\ errors' = errors
                 /\ pc' = NextPc(1)
            ELSE /\ errors' = Append(errors, 1)
                 /\ pc' = AfterHandler(1)
                 /\ UNCHANGED <<bound, stages>>
    /\ UNCHANGED <<env, table, plotFailed, modelFailedAt, oracle, dataVars, searchVars>>

\* Step 2: the exploratory charts; the handler prints and falls through.
Step2 ==
    /\ pc = "step2"
    /\ attempted' = Append(attempted, 2)
    /\ \E o \in {"ok", "plot"} :
        IF o = "ok"
            THEN /\ pc' = NextPc(2)
                 /\ UNCHANGED <<errors, plotFailed>>
            ELSE /\ errors' = Append(errors, 2)
                 /\ plotFailed' = plotFailed \cup {<<2, o>>}
                 /\ pc' = AfterHandler(2)
    /\ UNCHANGED <<bound, env, table, stages, modelFailedAt, oracle, dataVars, searchVars>>

\* Mutant of FitRows: the scaler is fit on every row of the dataset.
FitRowsAll(col, p) == col

\* The rows StandardScaler.fit sees in Step 3: the train partition.
FitRows(col, p) == Take(col, TrainIdx(p))

\* Step 3: the split and the scaling; the handler calls exit().
\* "split": drop / train_test_split raises; "scale": fit_transform raises;
\* "transform": scaler.transform(X_test) raises after the fit.
Step3 ==
    /\ pc = "step3"
    /\ attempted' = Append(attempted, 3)
    /\ \E o \in {"ok", "split", "scale", "transform"} :
        /\ (o \in {"ok", "transform"}) => NTrain(Len(X)) >= 1
        /\ IF o = "split"
              THEN /\ UNCHANGED <<bound, stages, dataVars>>
              ELSE /\ X_train' = Take(X, TrainIdx(perm))
                   /\ X_test' = Take(X, TestIdx(perm))
                   /\ IF o = "scale"
                         THEN /\ bound' = bound \cup {"X_train", "X_test", "scaler"}
                              /\ stages' = Append(stages, "Split")
                              /\ UNCHANGED <<scaler, scalerLog, X_train_scaled,
                                             X_test_scaled>>
                         ELSE /\ scaler' = ScalerFit(FitRows(X, perm))
                              /\ scalerLog' = scalerLog \o <<<<"fit", "train">>,
                                                            <<"transform", "train">>,
                                                            <<"transform", "test">>>>
                              /\ X_train_scaled' = ScalerTransform(scaler', X_train')
                              /\ IF o = "transform"
                                    THEN /\ bound' = bound \cup {"X_train", "X_test",
                                                "scaler", "X_train_scaled"}
                                         /\ stages' = Append(stages, "Split")
                                         /\ UNCHANGED X_test_scaled
                                    ELSE /\ bound' = bound \cup {"X_train", "X_test",
                                                "scaler", "X_train_scaled",
                                                "X_test_scaled"}
                                         /\ stages' = stages \o <<"Split", "Scaled">>
                                         /\ X_test_scaled' =
                                                ScalerTransform(scaler', X_test')
                   /\ UNCHANGED <<X, perm>>
        /\ errors' = IF o = "ok" THEN errors ELSE Append(errors, 3)
        /\ pc' = IF o = "ok" THEN NextPc(3) ELSE AfterHandler(3)
    /\ UNCHANGED <<env, table, plotFailed, modelFailedAt, oracle, searchVars>>

\* Step 4: Linear Regression.
Step4 ==
    /\ pc = "step4"
    /\ ModelBlock(4, "lr", {"fit", "predict", "mse", "r2", "plot"})

\* Step 5: Random Forest, its scatter plot and its feature-importance chart.
Step5 ==
    /\ pc = "step5"
    /\ ModelBlock(5, "rf", {"fit", "predict", "mse", "r2", "plot", "importance"})

\* Step 6: the grid search, then the forest refit with best_params.
Step6 ==
    /\ pc = "step6"
    /\ ModelBlock(6, "optimized", {"search", "fit", "predict", "mse", "r2", "plot"})

TableNames == {MseName(m) : m \in Models} \cup {R2Name(m) : m \in Models}

Row(e, m) == <<DisplayName(m), e[MseName(m)], e[R2Name(m)]>>

\* Step 7: the comparison table and chart.  Building the DataFrame reads all
\* six metric globals; an unbound one raises NameError before the print.
Step7 ==
    /\ pc = "step7"
    /\ attempted' = Append(attempted, 7)
    /\ IF TableNames \subseteq DOMAIN env
          THEN /\ table' = [emitted |-> TRUE,
                            rows |-> <<Row(env, "lr"), Row(env, "rf"),
                                       Row(env, "optimized")>>]
               /\ stages' = Append(stages, "Evaluated")
               /\ \E o \in {"ok", "plot"} :
                    IF o = "ok"
                        THEN /\ pc' = NextPc(7)
                             /\ UNCHANGED <<errors, plotFailed>>
                        ELSE /\ errors' = Append(errors, 7)
                             /\ plotFailed' = plotFailed \cup {<<7, o>>}
                             /\ pc' = AfterHandler(7)
          ELSE /\ errors' = Append(errors, 7)
               /\ pc' = AfterHandler(7)
               /\ UNCHANGED <<table, stages, plotFailed>>
    /\ UNCHANGED <<bound, env, modelFailedAt, oracle, dataVars, searchVars>>

\* Step 8: the fixed business narrative, outside any try block.
Step8 ==
    /\ pc = "step8"
    /\ attempted' = Append(attempted, 8)
    /\ stages' = Append(stages, "Reported")
    /\ pc' = NextPc(8)
    /\ UNCHANGED <<bound, env, table, errors, plotFailed, modelFailedAt, oracle,
                   dataVars, searchVars>>

(***************************************************************************)
(* Step 6: param_grid and GridSearchCV(cv=3, n_jobs=-1).fit.               *)
(*                                                                         *)
(* ParameterGrid sorts the option names and yields their Cartesian         *)
(* product with the last name varying fastest.  fit hands one job per      *)
(* (candidate, fold) of product(candidates, folds) to the worker pool in   *)
(* that order, collects one score per job into a list indexed like the     *)
(* jobs, and only when every job has returned computes each candidate's    *)
(* mean score and ranks them.  A fit that raises scores NaN                *)
(* (error_score=nan, the default), and NaN makes the candidate's mean      *)
(* NaN; fit raises when every fit of the search failed.                    *)
(***************************************************************************)
NoLimit == 0        \* max_depth=None

n_estimators == <<50, 100, 200>>

max_depth == <<NoLimit, 10, 20, 30>>

min_samples_split == <<2, 5, 10>>

\* Mutant of min_samples_leaf: a fourth value.
min_samples_leaf_four == <<1, 2, 4, 8>>

min_samples_leaf == <<1, 2, 4>>

CvFolds == 3

RECURSIVE Flatten(_)
Flatten(ss) == IF ss = <<>> THEN <<>> ELSE ss[1] \o Flatten(Tail(ss))

\* itertools.product of a sequence of value lists: the first list varies slowest.
RECURSIVE Product(_)
Product(ls) ==
    IF ls = <<>> THEN << <<>> >>
    ELSE LET rest == Product(Tail(ls))
         IN  Flatten([i \in 1..Len(ls[1]) |->
                        [j \in 1..Len(rest) |-> <<ls[1][i]>> \o rest[j]]])

\* ParameterGrid(param_grid): the names in sorted order.
ParameterGrid ==
    LET tuples == Product(<<max_depth, min_samples_leaf, min_samples_split,
                            n_estimators>>)
    IN  [i \in 1..Len(tuples) |->
            [max_depth |-> tuples[i][1],
             min_samples_leaf |-> tuples[i][2],
             min_samples_split |-> tuples[i][3],
             n_estimators |-> tuples[i][4]]]

Folds == 0..(CvFolds - 1)

NJobs(cands) == Len(cands) * CvFolds

\* Mutant of JobAt: the fold loop stops one fold short and wraps.
JobAtShortFolds(n) == <<(n - 1) \div CvFolds, (n - 1) % (CvFolds - 1)>>

\* The n-th job of product(enumerate(candidates), enumerate(folds)):
\* <<cand_idx, split_idx>>, both counted from 0.
JobAt(n) == <<(n - 1) \div CvFolds, (n - 1) % CvFolds>>

\* A job's outcome is the score of its fit (0 or more), or Failed.
Failed == 0 - 1

\* The position of job j in the product: JobAt(JobNumber(j)) = j.
JobNumber(j) == j[1] * CvFolds + j[2] + 1

\* Scores and means are fractions, or NaN.

NaN == [nan |-> TRUE, num |-> 0, den |-> 1]

Num(x) == [nan |-> FALSE, num |-> x, den |-> 1]

IsNaN(x) == x.nan

\* a >= b for two fractions that are not NaN.
FracGE(a, b) == a.num * b.den >= b.num * a.den

FracGT(a, b) == a.num * b.den > b.num * a.den

\* What _fit_and_score returns for an outcome: error_score=nan on a failure.
ScoreOf(o) == IF o = Failed THEN NaN ELSE Num(o)

\* Mutant of MeanScore: the failed folds are left out of the mean.
MeanScoreSkipNaN(sc, c) ==
    LET valid == {f \in Folds : ~IsNaN(sc[<<c, f>>])}
        seq == [i \in 1..CvFolds |->
                    IF (i - 1) \in valid THEN sc[<<c, i - 1>>].num ELSE 0]
    IN  IF valid = {} THEN NaN
        ELSE [nan |-> FALSE, num |-> SumSeq(seq), den |-> Cardinality(valid)]

\* mean_test_score of candidate c: np.average over its fold scores, NaN as
\* soon as one of them is NaN.
MeanScore(sc, c) ==
    IF \E f \in Folds : IsNaN(sc[<<c, f>>]) THEN NaN
    ELSE [nan |-> FALSE,
          num |-> SumSeq([i \in 1..CvFolds |-> sc[<<c, i - 1>>].num]),
          den |-> CvFolds]

CandIdx(means) == 0..(Len(means) - 1)

\* rank_test_score: NaN means are replaced by a value below the smallest
\* valid mean, then rankdata(-means, method="min"); all 1 when every mean is NaN.
Rank(means, c) ==
    IF \A d \in CandIdx(means) : IsNaN(means[d + 1]) THEN 1
    ELSE 1 + Cardinality({d \in CandIdx(means) :
                /\ ~IsNaN(means[d + 1])
                /\ IsNaN(means[c + 1]) \/ FracGT(means[d + 1], means[c + 1])})

\* Mutant of BestIndex: the last of the best-ranked candidates.
BestIndexLast(means) ==
    CHOOSE c \in CandIdx(means) :
        /\ \A d \in CandIdx(means) : Rank(means, c) <= Rank(means, d)
        /\ \A d \in CandIdx(means) : Rank(means, d) = Rank(means, c) => d <= c

\* best_index_ = rank_test_score.argmin(): the first best-ranked candidate.
BestIndex(means) ==
    CHOOSE c \in CandIdx(means) :
        /\ \A d \in CandIdx(means) : Rank(means, c) <= Rank(means, d)
        /\ \A d \in CandIdx(means) : Rank(means, d) = Rank(means, c) => c <= d

AllDispatched == Len(dispatched) = NJobs(candidates)

\* Mutant of SelectReady: the results are aggregated while jobs still run.
SelectReadyEarly == AllDispatched

\* Parallel returns its result list once every job has returned.
SelectReady == AllDispatched /\ running = {}

\* The pool takes the next job of the product when a worker is free.
Dispatch ==
    /\ searchPc = "running"
    /\ ~AllDispatched
    /\ Cardinality(running) < nWorkers
    /\ dispatched' = Append(dispatched, JobAt(Len(dispatched) + 1))
    /\ running' = running \cup {JobAt(Len(dispatched) + 1)}
    /\ UNCHANGED <<candidates, outcomes, nWorkers, scores, outOfOrder, searchPc,
                   mean_test_score, best_index_, pipelineVars, dataVars>>

\* A running job returns its score record; its slot in the result list is
\* the job's own, whatever the order of completion.
Complete ==
    /\ searchPc = "running"
    /\ \E j \in running, o \in outcomes :
        /\ scores' = [k \in DOMAIN scores \cup {j} |->
                        IF k = j THEN ScoreOf(o) ELSE scores[k]]
        /\ running' = running \ {j}
        /\ outOfOrder' = (outOfOrder \/ \E k \in running : JobNumber(k) < JobNumber(j))
    /\ UNCHANGED <<candidates, outcomes, nWorkers, dispatched, searchPc,
                   mean_test_score, best_index_, pipelineVars, dataVars>>

ScoreOrNaN(sc, j) == IF j \in DOMAIN sc THEN sc[j] ELSE NaN

\* The aggregation: raise when every fit failed, else the means, the ranks
\* and best_index_ (followed by the refit of the best candidate).
Select ==
    /\ searchPc = "running"
    /\ SelectReady
    /\ LET got == [j \in {JobAt(n) : n \in 1..NJobs(candidates)} |->
                        ScoreOrNaN(scores, j)]
           means == [i \in 1..Len(candidates) |-> MeanScore(got, i - 1)]
       IN  IF \A j \in DOMAIN got : IsNaN(got[j])
              THEN /\ searchPc' = "raised"
                   /\ UNCHANGED <<mean_test_score, best_index_>>
              ELSE /\ searchPc' = "selected"
                   /\ mean_test_score' = means
                   /\ best_index_' = BestIndex(means)
    /\ UNCHANGED <<candidates, outcomes, nWorkers, dispatched, running, scores,
                   outOfOrder, pipelineVars, dataVars>>

(***************************************************************************)
(* Initial states.                                                         *)
(***************************************************************************)
InitScript ==
    /\ pc = "step1"
    /\ bound = {}
    /\ env = EmptyEnv
    /\ table = NoTable
    /\ errors = <<>>
    /\ attempted = <<>>
    /\ stages = <<>>
    /\ plotFailed = {}
    /\ modelFailedAt = [m \in Models |-> "unrun"]
    /\ X_train = <<>>
    /\ X_test = <<>>
    /\ scaler = NotFitted
    /\ scalerLog = <<>>
    /\ X_train_scaled = <<>>
    /\ X_test_scaled = <<>>

InitNoSearch ==
    /\ candidates = <<>>
    /\ outcomes = {}
    /\ nWorkers = 1
    /\ dispatched = <<>>
    /\ running = {}
    /\ scores = <<>>
    /\ outOfOrder = FALSE
    /\ searchPc = "idle"
    /\ mean_test_score = <<>>
    /\ best_index_ = NoIndex

\* The script on one dataset, for every pair of metrics each model can get.
Init ==
    /\ InitScript
    /\ InitNoSearch
    /\ oracle \in [Models -> MetricValues \X MetricValues]
    /\ X = [i \in 1..NRows |-> i % 2]
    /\ perm = [i \in 1..NRows |-> i]

\* The script on every dataset and every shuffle of its rows.
InitScaler ==
    /\ InitScript
    /\ InitNoSearch
    /\ oracle = [m \in Models |-> <<0, 0>>]
    /\ X \in [1..NRows -> FeatureValues]
    /\ perm \in RowPermutations(NRows)

InitNoScript ==
    /\ InitScript
    /\ oracle = [m \in Models |-> <<0, 0>>]
    /\ X = [i \in 1..NRows |-> i % 2]
    /\ perm = [i \in 1..NRows |-> i]

InitSearchState ==
    /\ dispatched = <<>>
    /\ running = {}
    /\ scores = <<>>
    /\ outOfOrder = FALSE
    /\ searchPc = "running"
    /\ mean_test_score = <<>>
    /\ best_index_ = NoIndex

\* grid_search.fit over the whole grid, on one worker, every fit scoring 0.
InitGrid ==
    /\ InitNoScript
    /\ InitSearchState
    /\ candidates = ParameterGrid
    /\ outcomes = {0}
    /\ nWorkers = 1

\* grid_search.fit over the first MaxCandidates candidates of the grid, on
\* every pool size up to MaxWorkers, every fit scoring 0 or 1 or failing.
InitSearch ==
    /\ InitNoScript
    /\ InitSearchState
    /\ candidates = SubSeq(ParameterGrid, 1, MaxCandidates)
    /\ outcomes = {0, 1, Failed}
    /\ nWorkers \in 1..MaxWorkers

NextSearch ==
    \/ Dispatch
    \/ Complete
    \/ Select

SpecGrid == InitGrid /\ [][NextSearch]_vars

SpecSearch == InitSearch /\ [][NextSearch]_vars

Next ==
    \/ Step1
    \/ Step2
    \/ Step3
    \/ Step4
    \/ Step5
    \/ Step6
    \/ Step7
    \/ Step8

Spec == Init /\ [][Next]_vars

SpecScaler == InitScaler /\ [][Next]_vars

(***************************************************************************)
(* Properties.                                                             *)
(***************************************************************************)
TypeOK ==
    /\ pc \in {StepPc(i) : i \in 1..9} \cup {"exited"}
    /\ DOMAIN env \subseteq TableNames
    /\ table.emitted \in BOOLEAN
    /\ searchPc \in {"idle", "running", "selected", "raised"}

Finished == pc \in {"step8", "done"}

\* ---- C1 ----------------------------------------------------------------
\* C1 (as claimed): once a step has failed, no later step is entered: every
\* step recorded in errors is the last step attempted.
C1_FailureAbortsRun ==
    \A i \in DOMAIN errors : errors[i] = Last(attempted)

\* C1 (amended): a failure of Step 1 (load) or Step 3 (split/scale) ends the
\* run at that step; a failure of any other step (visualization, baseline,
\* ensemble, tuning, final evaluation) is followed by the next step.
C1_OnlyLoadAndPreprocessingAbort ==
    \A i \in DOMAIN errors :
        LET f == errors[i]
        IN  IF f \in {1, 3}
               THEN pc = "exited" /\ Last(attempted) = f
               ELSE pc = StepPc(f + 1) \/ (f + 1) \in Range(attempted)

\* A run whose visualization failed, went on, and was ended by Step 3.
C1_Witness == pc = "exited" /\ errors = <<2, 3>>

\* ---- C2 ----------------------------------------------------------------
CompletedModels(e) ==
    SelectSeq(<<"lr", "rf", "optimized">>,
              LAMBDA m : {MseName(m), R2Name(m)} \subseteq DOMAIN e)

RowsOf(e) == [i \in DOMAIN CompletedModels(e) |-> Row(e, CompletedModels(e)[i])]

\* C2 (as claimed): in a finished run in which a model step failed and
\* another model's training and evaluation completed, the comparison table
\* has been emitted and holds exactly the rows of the completed models.
C2_TableHoldsCompletedModels ==
    (Finished /\ Range(errors) \cap {4, 5, 6} # {} /\ CompletedModels(env) # <<>>) =>
        /\ table.emitted
        /\ table.rows = RowsOf(env)

\* ---- C8 ----------------------------------------------------------------
StageOrder == <<"Loaded", "Split", "Scaled", "BaselineTrained", "EnsembleTrained",
                "Tuned", "Evaluated", "Reported">>

StageIndex(st) == CHOOSE i \in DOMAIN StageOrder : StageOrder[i] = st

\* C8 (as claimed): the stages completed so far are an initial part of
\* Loaded, Split, ..., Reported: a stage is reached only after every earlier
\* stage has completed.
C8_StagesArePrefix ==
    /\ Len(stages) <= Len(StageOrder)
    /\ \A i \in DOMAIN stages : stages[i] = StageOrder[i]

\* C8 (amended): the steps are entered in order, each once (no retry); the
\* stages completed are in the order of Loaded, ..., Reported and none is
\* completed twice; and a stage after Scaled is reached only after Loaded,
\* Split and Scaled.  The stages BaselineTrained, EnsembleTrained, Tuned and
\* Evaluated may be missing: their steps fall through when they fail.
C8_StagesOnlyForward ==
    /\ attempted = [i \in 1..Len(attempted) |-> i]
    /\ \A i, j \in DOMAIN stages :
            i < j => StageIndex(stages[i]) < StageIndex(stages[j])
    /\ \A i \in DOMAIN stages :
            StageIndex(stages[i]) > 3 =>
                /\ i > 3
                /\ SubSeq(stages, 1, 3) = <<"Loaded", "Split", "Scaled">>

\* A finished run that reached EnsembleTrained and Reported without
\* BaselineTrained.
C8_Witness ==
    /\ pc = "done"
    /\ "BaselineTrained" \notin Range(stages)
    /\ "EnsembleTrained" \in Range(stages)
    /\ Last(stages) = "Reported"

\* ---- C10 ---------------------------------------------------------------
\* The records and the table as the non-plot outcomes alone determine them.
ExpectedNames ==
    {MseName(m) : m \in {k \in Models : modelFailedAt[k] \in {"r2", "none"}}}
        \cup {R2Name(m) : m \in {k \in Models : modelFailedAt[k] = "none"}}

ExpectedValue(name) ==
    LET m == CHOOSE k \in Models : name \in {MseName(k), R2Name(k)}
    IN  IF name = MseName(m) THEN oracle[m][1] ELSE oracle[m][2]

ExpectedTable ==
    IF \A m \in Models : modelFailedAt[m] = "none"
        THEN [emitted |-> TRUE,
              rows |-> <<<<"Linear Regression", oracle["lr"][1], oracle["lr"][2]>>,
                         <<"Random Forest", oracle["rf"][1], oracle["rf"][2]>>,
                         <<"Optimized Random Forest", oracle["optimized"][1],
                           oracle["optimized"][2]>>>>]
        ELSE NoTable

\* C10: the evaluation records bound so far, and the table of a finished
\* run, are those determined by the models' metrics and the non-plot
\* failures alone: which plots raised makes no difference to them.
C10_PlotsDoNotChangeRecords ==
    /\ DOMAIN env = ExpectedNames
    /\ \A name \in DOMAIN env : env[name] = ExpectedValue(name)
    /\ Finished => table = ExpectedTable

\* A finished run in which every kind of plot raised and the table is out.
C10_Witness ==
    /\ pc = "done"
    /\ table.emitted
    /\ plotFailed = {<<2, "plot">>, <<4, "plot">>, <<5, "plot">>, <<6, "plot">>,
                     <<7, "plot">>}

\* ---- C7 ----------------------------------------------------------------
FitCalls == {i \in DOMAIN scalerLog : scalerLog[i][1] = "fit"}

\* The datasets that differ from X at most in the rows of the test partition.
SameTrainRows == {X2 \in [DOMAIN X -> FeatureValues] :
                    \A i \in Range(TrainIdx(perm)) : X2[i] = X[i]}

\* C7: the scaler is fit at most once and on the train partition; the test
\* partition is only ever transformed; and in every state the fitted
\* parameters are those of the train rows, the same for every dataset that
\* differs from this one only in its test rows.
C7_ScalerFitOnTrainOnly ==
    /\ Cardinality(FitCalls) <= 1
    /\ \A i \in DOMAIN scalerLog :
            scalerLog[i][2] = "test" => scalerLog[i][1] = "transform"
    /\ ("Scaled" \in Range(stages)) => (scaler # NotFitted)
    /\ scaler # NotFitted =>
            /\ Cardinality(FitCalls) = 1
            /\ \A X2 \in SameTrainRows :
                    scaler = ScalerFit([i \in 1..NTrain(Len(X2)) |->
                                            X2[perm[NTest(Len(X2)) + i]]])

\* A finished run whose test rows all differ from all of its train rows.
C7_Witness ==
    /\ pc = "done"
    /\ scaler # NotFitted
    /\ Len(X_test) >= 1
    /\ \A i \in DOMAIN X_test, j \in DOMAIN X_train : X_test[i] # X_train[j]

\* ---- C3 ----------------------------------------------------------------
SearchOver == searchPc \in {"selected", "raised"}

\* C3 (as claimed): 144 candidates and, with 3 folds, 432 jobs.
C3_Grid144Jobs432 ==
    SearchOver => Len(candidates) = 144 /\ Len(dispatched) = 432

\* C3 (amended): the grid has 3 x 4 x 3 x 3 = 108 candidates, and with 3
\* folds exactly 324 jobs are executed by the search.
C3_Grid108Jobs324 ==
    /\ Len(candidates) = 3 * 4 * 3 * 3
    /\ Len(candidates) = 108
    /\ Len(dispatched) <= 324
    /\ SearchOver => Len(dispatched) = 324 /\ Cardinality(DOMAIN scores) = 324

C3_Witness == searchPc = "selected" /\ Len(dispatched) = 324

\* ---- C6 ----------------------------------------------------------------
\* The Cartesian product of the option values, as a set.
GridPoints ==
    {[max_depth |-> d, min_samples_leaf |-> l, min_samples_split |-> sp,
      n_estimators |-> n] :
        d \in Range(max_depth), l \in Range(min_samples_leaf),
        sp \in Range(min_samples_split), n \in Range(n_estimators)}

\* C6: no (configuration, fold) pair is handed out twice, and when the
\* search is over the pairs evaluated are exactly the Cartesian product of
\* the grid times the folds, |grid| x k jobs in all.
C6_EachPairExactlyOnce ==
    /\ Cardinality({<<candidates[dispatched[i][1] + 1], dispatched[i][2]>> :
                        i \in DOMAIN dispatched}) = Len(dispatched)
    /\ SearchOver =>
        /\ {<<candidates[j[1] + 1], j[2]>> : j \in DOMAIN scores}
                = GridPoints \X Folds
        /\ Len(dispatched) = Cardinality(GridPoints) * CvFolds
        /\ Range(dispatched) = DOMAIN scores

C6_Witness ==
    /\ searchPc = "selected"
    /\ Last(dispatched) = <<Len(ParameterGrid) - 1, CvFolds - 1>>
    /\ Len(candidates) = Cardinality(GridPoints)

\* ---- C4 ----------------------------------------------------------------
ValidCandidate(c) == \A f \in Folds : ~IsNaN(scores[<<c, f>>])

\* k times the mean score of a candidate all of whose folds scored.
TotalScore(c) == SumSeq([i \in 1..CvFolds |-> scores[<<c, i - 1>>].num])

\* C4: the selected candidate's mean score is at least that of every
\* candidate with a valid mean, and greater than that of every such
\* candidate that comes before it in the enumeration of the grid.
C4_BestIsFirstMaximum ==
    searchPc = "selected" =>
        \A c \in CandIdx(candidates) :
            ValidCandidate(c) =>
                /\ ValidCandidate(best_index_)
                /\ TotalScore(best_index_) >= TotalScore(c)
                /\ c < best_index_ => TotalScore(best_index_) > TotalScore(c)

\* A search in which the last candidate ties the selected one for the best
\* mean.
C4_Witness ==
    /\ searchPc = "selected"
    /\ best_index_ # Len(candidates) - 1
    /\ ValidCandidate(best_index_)
    /\ ValidCandidate(Len(candidates) - 1)
    /\ TotalScore(Len(candidates) - 1) = TotalScore(best_index_)
    /\ TotalScore(best_index_) > 0

\* ---- C5 ----------------------------------------------------------------
AllJobs == {JobAt(n) : n \in 1..NJobs(candidates)}

\* C5: whenever a selection has been made (or the search has raised), every
\* job of the search has been handed out and has returned its record, none
\* is still running, and the selection is the one the records determine,
\* whatever the order in which they arrived.
C5_SelectionAfterAllJobs ==
    /\ SearchOver =>
        /\ running = {}
        /\ DOMAIN scores = AllJobs
        /\ Range(dispatched) = AllJobs
    /\ searchPc = "selected" =>
        /\ best_index_ \in CandIdx(candidates)
        /\ \A c \in CandIdx(candidates) :
                (ValidCandidate(c) /\ c # best_index_) =>
                    /\ ValidCandidate(best_index_)
                    /\ \/ TotalScore(c) < TotalScore(best_index_)
                       \/ TotalScore(c) = TotalScore(best_index_) /\ best_index_ < c
    /\ searchPc = "running" => best_index_ = NoIndex

\* A selection made after jobs returned out of their dispatch order.
C5_Witness ==
    /\ searchPc = "selected"
    /\ outOfOrder
    /\ nWorkers > 1
    /\ best_index_ > 0

\* ---- C9 ----------------------------------------------------------------
FailedFolds(c) == {f \in Folds : IsNaN(scores[<<c, f>>])}

ScoredFolds(c) == Folds \ FailedFolds(c)

ScoredTotal(c) ==
    SumSeq([i \in 1..CvFolds |->
                IF (i - 1) \in ScoredFolds(c) THEN scores[<<c, i - 1>>].num ELSE 0])

\* C9 (as claimed): after the search, a candidate with a failed fold and a
\* successful one has as its mean score the mean over its successful folds.
C9_MeanOverSuccessfulFolds ==
    searchPc = "selected" =>
        \A c \in CandIdx(candidates) :
            (FailedFolds(c) # {} /\ ScoredFolds(c) # {}) =>
                /\ ~IsNaN(mean_test_score[c + 1])
                /\ mean_test_score[c + 1].num * Cardinality(ScoredFolds(c))
                        = ScoredTotal(c) * mean_test_score[c + 1].den

\* C9 (amended): when some but not all jobs of the search failed, the search
\* is not aborted: every job has returned a record, a candidate with a
\* failed fold has the mean score NaN (not the mean over its successful
\* folds), a candidate without one has the mean of its k fold scores, and a
\* candidate is selected, one with a valid mean whenever there is one.
C9_FailedFoldMakesMeanNaN ==
    (/\ SearchOver
     /\ \E j \in AllJobs : IsNaN(scores[j])
     /\ \E k \in AllJobs : ~IsNaN(scores[k])) =>
        /\ searchPc = "selected"
        /\ DOMAIN scores = AllJobs
        /\ \A c \in CandIdx(candidates) :
                IF FailedFolds(c) # {}
                    THEN IsNaN(mean_test_score[c + 1])
                    ELSE /\ ~IsNaN(mean_test_score[c + 1])
                         /\ mean_test_score[c + 1].num = ScoredTotal(c)
                         /\ mean_test_score[c + 1].den = CvFolds
        /\ best_index_ \in CandIdx(candidates)
        /\ (\E c \in CandIdx(candidates) : FailedFolds(c) = {}) =>
                FailedFolds(best_index_) = {}

\* A search in which the first candidate lost one fold, kept a higher score
\* on the others than any other candidate, and was not selected.
C9_Witness ==
    /\ searchPc = "selected"
    /\ Cardinality(FailedFolds(0)) = 1
    /\ ScoredTotal(0) = CvFolds - 1
    /\ best_index_ # 0
    /\ TotalScore(best_index_) < ScoredTotal(0)

====
